---- MODULE Spec2Model ----
(***************************************************************************)
(* A model of the three command-line scripts of 2wikimultihop:             *)
(*   extract_for_interpretability.py  (the extractor)                      *)
(*   load_dataset.py                  (the loader)                         *)
(*   explore_paragraphs.py            (the explorer)                       *)
(* A run of a script is a sequence of steps over the file system, the      *)
(* script's local variables and what it has printed.  An uncaught Python   *)
(* exception ends the run in pc = "error".                                 *)
(***************************************************************************)
EXTENDS Integers, Sequences, FiniteSets, TLC

VARIABLES script,          \* which script this run executes
          args,            \* the parsed command line (argparse namespace)
          fs,              \* the file system: path -> content
          fs0,             \* the file system as it was when the run started
          hashSeed,        \* the process's string-hash order (PYTHONHASHSEED)
          pc,              \* the position of the run
          raw_data,        \* the value json.load returned
          processed_data,  \* extractor: the records retained so far
          cursor,          \* extractor: number of raw samples the loop has consumed
          stats,           \* the statistics computed
          stdout,          \* what the run has reported so far
          fn_in,           \* function harness: the sample under test
          fn_out           \* function harness: the results of the calls

vars == <<script, args, fs, fs0, hashSeed, pc, raw_data, processed_data, cursor,
          stats, stdout, fn_in, fn_out>>

(***************************************************************************)
(* Bounds of the model.                                                    *)
(***************************************************************************)
MaxFacts == 2      \* longest supporting_facts list of the function harness
MaxEvid == 2       \* longest evidences list of the function harness
MaxSamples == 2    \* longest top-level list in an input file
MaxMinHops == 2    \* largest --min-hops drawn
MaxShow == 1       \* largest --sample drawn
MaxFiles == 1      \* most *.json files in the paragraph directory

(***************************************************************************)
(* Data.  A JSON object (a Python dict) is a function whose DOMAIN is the   *)
(* set of keys present, so that a missing key is really missing.           *)
(***************************************************************************)
None == "None"                       \* Python's None
Titles == {"A", "B"}                 \* document titles
Entities == {"", "A", "B", "C"}      \* entity strings, the empty string included
Relation == "r"

Get(d, k, default) == IF k \in DOMAIN d THEN d[k] ELSE default   \* dict.get

Truthy(e) == e # "" /\ e # None      \* the truth value of a str-or-None

\* The orders in which a set of titles may be iterated: one per hash seed.
Seeds == {s \in [1..Cardinality(Titles) -> Titles] : \A t \in Titles : \E k \in DOMAIN s : s[k] = t}

\* list(set(xs)): the distinct elements, in the iteration order of the set,
\* which is a property of the process (its hash seed), not of xs.
ListOfSet(S, seed) == SelectSeq(seed, LAMBDA t : t \in S)

SeqsUpTo(S, n) == UNION {[1..k -> S] : k \in 0..n}

Range(s) == {s[k] : k \in DOMAIN s}

NoDuplicates(s) == \A a, b \in DOMAIN s : s[a] = s[b] => a = b

(***************************************************************************)
(* extract_bridge_entities                                                  *)
(***************************************************************************)
RECURSIVE entities_in_chain(_)
entities_in_chain(evidences) ==
    IF evidences = <<>> THEN <<>>
    ELSE LET evidence == Head(evidences)
         IN  (IF Len(evidence) >= 3 THEN <<evidence[1], evidence[3]>> ELSE <<>>)
             \o entities_in_chain(Tail(evidences))

RECURSIVE dedup_loop(_, _, _)
dedup_loop(bridge_entities, seen, answer) ==
    IF bridge_entities = <<>> THEN <<>>
    ELSE LET entity == Head(bridge_entities)
         IN  IF Truthy(entity) /\ entity \notin seen /\ entity # answer
             THEN <<entity>> \o dedup_loop(Tail(bridge_entities), seen \cup {entity}, answer)
             ELSE dedup_loop(Tail(bridge_entities), seen, answer)

\* The list before deduplication: the titles, then the chain's entities.
collect_entities(sample, seed) ==
    LET supporting_facts == Get(sample, "supporting_facts", <<>>)
        titles == IF supporting_facts # <<>>
                  THEN ListOfSet({supporting_facts[k][1] : k \in DOMAIN supporting_facts}, seed)
                  ELSE <<>>
        evidences == Get(sample, "evidences", <<>>)
    IN  titles \o entities_in_chain(evidences)

\* A slip that keeps every entity: no seen-set, no comparison with the answer.
extract_bridge_entities_keep_all(sample, seed) ==
    SelectSeq(collect_entities(sample, seed), Truthy)

extract_bridge_entities(sample, seed) ==
    dedup_loop(collect_entities(sample, seed), {}, Get(sample, "answer", None))

(***************************************************************************)
(* extract_reasoning_chain                                                  *)
(***************************************************************************)
RECURSIVE chain_loop(_, _)
chain_loop(evidences, n) ==      \* n: enumerate's index, from 0
    IF n >= Len(evidences) THEN <<>>
    ELSE LET evidence == evidences[n + 1]
         IN  (IF Len(evidence) >= 3
              THEN <<[hop |-> n + 1, subject |-> evidence[1],
                      relation |-> evidence[2], object |-> evidence[3]]>>
              ELSE <<>>)
             \o chain_loop(evidences, n + 1)

\* A slip that numbers the hops from enumerate's index, that is from 0.
extract_reasoning_chain_from_zero(sample) ==
    LET c == chain_loop(Get(sample, "evidences", <<>>), 0)
    IN  [k \in DOMAIN c |-> [c[k] EXCEPT !.hop = @ - 1]]

extract_reasoning_chain(sample) == chain_loop(Get(sample, "evidences", <<>>), 0)

(***************************************************************************)
(* process_sample                                                           *)
(***************************************************************************)
process_sample(sample, include_context, seed) ==
    LET processed ==
            [id |-> sample["_id"],
             question |-> sample["question"],
             answer |-> Get(sample, "answer", None),
             question_type |-> Get(sample, "type", None),
             bridge_entities |-> extract_bridge_entities(sample, seed),
             reasoning_chain |-> extract_reasoning_chain(sample),
             num_hops |-> Len(Get(sample, "evidences", <<>>)),
             entity_ids |-> Get(sample, "entity_ids", None)]
        context == Get(sample, "context", <<>>)
    IN  IF include_context
        THEN processed @@
             [supporting_facts |-> Get(sample, "supporting_facts", <<>>),
              context_titles |-> [k \in DOMAIN context |-> context[k][1]]]
        ELSE processed

(***************************************************************************)
(* Files and JSON values.                                                   *)
(***************************************************************************)
Paths == {"data.json", "out.jsonl", "para_with_hyperlink"}

Absent == [kind |-> "absent"]
JsonFile(v) == [kind |-> "json", value |-> v]
TextFile(t) == [kind |-> "text", text |-> t]
Directory(files) == [kind |-> "dir", json_files |-> files]   \* the *.json files, parsed

JList(items) == [kind |-> "list", items |-> items]
JDict(obj) == [kind |-> "dict", obj |-> obj]
JScalar == [kind |-> "scalar"]                \* a number: it has no len()
Unloaded == [kind |-> "unloaded"]

\* A slip that takes a dict for one element, as the explorer's wrapping does.
JsonLen_dict_as_one(v) == IF v.kind = "list" THEN Len(v.items) ELSE 1

\* len(v) of a parsed value: the length of a list, the number of keys of a dict.
JsonLen(v) == IF v.kind = "list" THEN Len(v.items) ELSE Cardinality(DOMAIN v.obj)

\* The text the extractor writes is a sequence of tokens: the one-line JSON text
\* of a record (ujson escapes line breaks inside strings) and line breaks.
Newline == [tok |-> "newline"]
dumps(rec) == [tok |-> "object", value |-> rec]

RECURSIVE write_lines(_)
write_lines(data) ==
    IF data = <<>> THEN <<>>
    ELSE <<dumps(Head(data)), Newline>> \o write_lines(Tail(data))

\* The lines of a text: the tokens before each line break.
RECURSIVE LinesFrom(_, _)
LinesFrom(text, line) ==
    IF text = <<>> THEN (IF line = <<>> THEN <<>> ELSE <<line>>)
    ELSE IF Head(text).tok = "newline" THEN <<line>> \o LinesFrom(Tail(text), <<>>)
    ELSE LinesFrom(Tail(text), Append(line, Head(text)))
Lines(text) == LinesFrom(text, <<>>)

(***************************************************************************)
(* Arithmetic of the printed numbers.                                       *)
(***************************************************************************)
\* n / d rounded to an integer as Python's float formatting rounds (half to even).
RoundHalfEven(n, d) ==
    LET q == n \div d
        r == n % d
    IN  IF 2 * r < d THEN q
        ELSE IF 2 * r > d THEN q + 1
        ELSE IF q % 2 = 0 THEN q ELSE q + 1

\* f"{count / total * 100:.1f}" in tenths of a percent.
pct_tenths(count, total) == RoundHalfEven(count * 1000, total)

(***************************************************************************)
(* Counting dicts (defaultdict(int), dict.get(k, 0) + 1): insertion-ordered *)
(* sequences of [key, count].                                               *)
(***************************************************************************)
increment(d, key) ==
    IF \E k \in DOMAIN d : d[k].key = key
    THEN [k \in DOMAIN d |-> IF d[k].key = key THEN [d[k] EXCEPT !.count = @ + 1] ELSE d[k]]
    ELSE Append(d, [key |-> key, count |-> 1])

\* sorted(d.items(), key=lambda x: x[1], reverse=True): by count, largest first,
\* equal counts in insertion order (the sort is stable).
insert_by_count(sorted, row) ==
    LET p == Cardinality({k \in DOMAIN sorted : sorted[k].count >= row.count})
    IN  SubSeq(sorted, 1, p) \o <<row>> \o SubSeq(sorted, p + 1, Len(sorted))

RECURSIVE sort_from(_, _)
sort_from(d, sorted) ==
    IF d = <<>> THEN sorted ELSE sort_from(Tail(d), insert_by_count(sorted, Head(d)))
sorted_by_count(d) == sort_from(d, <<>>)

RECURSIVE SumCounts(_)
SumCounts(rows) == IF rows = <<>> THEN 0 ELSE Head(rows).count + SumCounts(Tail(rows))

RECURSIVE SumPct(_)
SumPct(rows) == IF rows = <<>> THEN 0 ELSE Head(rows).pct + SumPct(Tail(rows))

(***************************************************************************)
(* analyze_dataset                                                          *)
(***************************************************************************)
EmptyStats ==
    [total_samples |-> 0, by_type |-> <<>>, by_num_hops |-> <<>>,
     with_bridge_entities |-> 0, total_bridges |-> 0, avg_bridge_entities |-> 0]

RECURSIVE analyze_loop(_, _)
analyze_loop(data, st) ==
    IF data = <<>> THEN st
    ELSE LET sample == Head(data)
             q_type == Get(sample, "question_type", "unknown")
             num_hops == Get(sample, "num_hops", 0)
             bridges == Get(sample, "bridge_entities", <<>>)
             counted == [st EXCEPT !.by_type = increment(@, q_type),
                                   !.by_num_hops = increment(@, num_hops)]
         IN  analyze_loop(Tail(data),
                 IF bridges # <<>>
                 THEN [counted EXCEPT !.with_bridge_entities = @ + 1,
                                      !.total_bridges = @ + Len(bridges)]
                 ELSE counted)

\* avg_bridge_entities is kept in hundredths, the precision it is printed with.
analyze_dataset(data) ==
    LET st == analyze_loop(data, [EmptyStats EXCEPT !.total_samples = Len(data)])
    IN  IF st.with_bridge_entities > 0
        THEN [st EXCEPT !.avg_bridge_entities =
                            RoundHalfEven(st.total_bridges * 100, st.with_bridge_entities)]
        ELSE st

(***************************************************************************)
(* The inputs drawn.                                                        *)
(***************************************************************************)
\* QA samples of an input file: a two-hop comparison sample, a one-hop
\* compositional one, a test-set sample with neither type, answer nor
\* evidences, and a sample whose only candidate entity is its answer.
Sample1 ==
    [_id |-> "q1", question |-> "Q1", type |-> "comparison", answer |-> "B",
     supporting_facts |-> << <<"B", 0>>, <<"A", 0>> >>,
     evidences |-> << <<"A", Relation, "B">>, <<"B", Relation, "A">> >>,
     context |-> << <<"A", <<"s">> >> >>]
Sample2 ==
    [_id |-> "q2", question |-> "Q2", type |-> "compositional", answer |-> "B",
     supporting_facts |-> << <<"A", 0>> >>,
     evidences |-> << <<"A", Relation, "B">> >>,
     context |-> << <<"A", <<"s">> >> >>]
Sample3 ==
    [_id |-> "q3", question |-> "Q3", context |-> <<>>]
Sample4 ==
    [_id |-> "q4", question |-> "Q4", type |-> "comparison", answer |-> "B",
     supporting_facts |-> << <<"B", 0>> >>, evidences |-> <<>>,
     context |-> << <<"B", <<>> >> >>]
SamplePool == {Sample1, Sample2, Sample3, Sample4}

\* What a sample file may parse to: a list of samples, one sample object, a number.
SampleFiles ==
    {JList(l) : l \in SeqsUpTo(SamplePool, MaxSamples)}
        \cup {JDict(s) : s \in SamplePool} \cup {JScalar}

Paragraph1 ==
    [id |-> "1", title |-> "A", sentences |-> <<"s1", "s2">>,
     mentions |-> <<[sent_idx |-> 0, start |-> 0, end |-> 1, ref_url |-> "B"]>>]
Paragraph2 == [title |-> "B"]
ParagraphPool == {Paragraph1, Paragraph2}

ParagraphFiles ==
    {JList(l) : l \in SeqsUpTo(ParagraphPool, MaxSamples)}
        \cup {JDict(p) : p \in ParagraphPool} \cup {JScalar}

\* The samples the functions are applied to in the function harness.
\* Evidences: every triple over the named entities, triples with an empty
\* subject or object, and a malformed evidence of two elements.
Evidences ==
    {<<s, Relation, o>> : s \in Entities \ {""}, o \in Entities \ {""}}
        \cup {<<"", Relation, "A">>, <<"A", Relation, "">>, <<"A", Relation>>}
FnBase == [_id |-> "q", question |-> "Q"]
FnSamples ==
    {(IF a = None THEN FnBase ELSE FnBase @@ [answer |-> a])
        @@ [supporting_facts |-> f, evidences |-> e] :
        a \in {None} \cup (Entities \ {""}),
        f \in SeqsUpTo({<<t, 0>> : t \in Titles}, MaxFacts),
        e \in SeqsUpTo(Evidences, MaxEvid)}

\* What was there before the run in a file the run may write.
OldText == <<dumps([id |-> "old"]), Newline>>

\* The values argparse accepts for --filter-type (None when it is not given).
FilterChoices == {"comparison", "inference", "compositional", "bridge_comparison"}

NoTraceback == [exc |-> "", line |-> 0]
EmptyStdout ==
    [diagnostic |-> "",          \* the error message of an early return
     total |-> -1,               \* the total count reported, -1 before it is
     types_header |-> FALSE,     \* the question-type section was printed
     type_rows |-> <<>>,         \* its rows: [key, count, pct] (pct in tenths)
     shown |-> 0,                \* samples, examples or paragraphs displayed
     wrote |-> -1,               \* "Wrote N samples", -1 before it is
     traceback |-> NoTraceback]  \* the uncaught exception, if any

NoFnOut == [bridges1 |-> <<>>, bridges2 |-> <<>>, processed |-> <<>>]

\* The state of every run before its first step.
Fresh ==
    /\ fs0 = fs
    /\ hashSeed \in Seeds
    /\ pc = "start"
    /\ raw_data = Unloaded
    /\ processed_data = <<>>
    /\ cursor = 0
    /\ stats = EmptyStats
    /\ stdout = EmptyStdout

NoFiles == [p \in Paths |-> Absent]

InitExtractor ==
    /\ script = "extractor"
    /\ args \in [input : {"data.json"},
                 output : {"data.json", "out.jsonl"},
                 include_context : BOOLEAN,
                 filter_type : {None} \cup FilterChoices,
                 min_hops : 0..MaxMinHops,
                 stats_only : BOOLEAN]
    /\ \E inp \in {Absent} \cup {JsonFile(v) : v \in SampleFiles},
          out \in {Absent, TextFile(OldText)} :
          fs = [NoFiles EXCEPT !["data.json"] = inp, !["out.jsonl"] = out]
    /\ fn_in = FnBase /\ fn_out = NoFnOut
    /\ Fresh

\* An uncaught exception: the traceback is printed and the run is over.
Crash(exc, line) ==
    /\ pc' = "error"
    /\ stdout' = [stdout EXCEPT !.traceback = [exc |-> exc, line |-> line]]

Min(a, b) == IF a <= b THEN a ELSE b

(***************************************************************************)
(* The extractor: main of extract_for_interpretability.py                   *)
(***************************************************************************)
\* Lines 157-163: the input path is checked before anything is read.
E_CheckInput ==
    /\ script = "extractor" /\ pc = "start"
    /\ IF fs[args.input].kind = "absent"
       THEN /\ stdout' = [stdout EXCEPT !.diagnostic = "Input file not found"]
            /\ pc' = "done"
       ELSE /\ pc' = "load"
            /\ UNCHANGED stdout
    /\ UNCHANGED <<script, args, fs, fs0, hashSeed, raw_data, processed_data,
                   cursor, stats, fn_in, fn_out>>

\* Lines 165-169: json.load, then "Processing {len(raw_data)} samples...".
E_Load ==
    /\ script = "extractor" /\ pc = "load"
    /\ raw_data' = fs[args.input].value
    /\ IF raw_data'.kind = "scalar"
       THEN Crash("TypeError", 169)
       ELSE /\ stdout' = [stdout EXCEPT !.total = JsonLen(raw_data')]
            /\ pc' = "process"
    /\ UNCHANGED <<script, args, fs, fs0, hashSeed, processed_data, cursor,
                   stats, fn_in, fn_out>>

\* Lines 176-180: the two filters; a record is retained when both let it pass.
passes_filters_hops_only(processed, a) == processed.num_hops >= a.min_hops

passes_filters(processed, a) ==
    /\ ~(a.filter_type # None /\ processed.question_type # a.filter_type)
    /\ ~(processed.num_hops < a.min_hops)

\* Lines 173-182: one iteration of the processing loop.  Iterating a dict
\* yields its keys, and process_sample indexes a key (a str) with '_id'.
E_ProcessSample ==
    /\ script = "extractor" /\ pc = "process"
    /\ cursor < JsonLen(raw_data)
    /\ IF raw_data.kind = "dict"
       THEN /\ Crash("TypeError", 84)
            /\ UNCHANGED <<processed_data, cursor>>
       ELSE LET processed == process_sample(raw_data.items[cursor + 1],
                                            args.include_context, hashSeed)
            IN  /\ processed_data' = IF passes_filters(processed, args)
                                     THEN Append(processed_data, processed)
                                     ELSE processed_data
                /\ cursor' = cursor + 1
                /\ pc' = "process"
                /\ UNCHANGED stdout
    /\ UNCHANGED <<script, args, fs, fs0, hashSeed, raw_data, stats, fn_in, fn_out>>

\* Lines 184-187: the loop is over; the statistics of the retained records.
E_Analyze ==
    /\ script = "extractor" /\ pc = "process"
    /\ cursor >= JsonLen(raw_data)
    /\ stats' = analyze_dataset(processed_data)
    /\ pc' = "print_types"
    /\ UNCHANGED <<script, args, fs, fs0, hashSeed, raw_data, processed_data,
                   cursor, stdout, fn_in, fn_out>>

\* The rows of a question-type section, each with its printed percentage.
type_rows(counts, total) ==
    LET rows == sorted_by_count(counts)
    IN  [k \in DOMAIN rows |->
            [key |-> rows[k].key, count |-> rows[k].count,
             pct |-> pct_tenths(rows[k].count, total)]]

\* Lines 188-195: the total and the question-type section.  A row is printed
\* with f"{q_type:20s}", which raises TypeError when q_type is None: the rows
\* before it are printed, the run ends there.
E_PrintTypes ==
    /\ script = "extractor" /\ pc = "print_types"
    /\ LET rows == type_rows(stats.by_type, stats.total_samples)
           unformattable == {k \in DOMAIN rows : rows[k].key = None}
       IN  IF unformattable # {}
           THEN LET first == CHOOSE k \in unformattable : \A m \in unformattable : k <= m
                IN  /\ stdout' = [stdout EXCEPT !.types_header = TRUE,
                                                !.type_rows = SubSeq(rows, 1, first - 1),
                                                !.traceback = [exc |-> "TypeError", line |-> 195]]
                    /\ pc' = "error"
           ELSE /\ stdout' = [stdout EXCEPT !.types_header = TRUE, !.type_rows = rows]
                /\ pc' = "print_hops"
    /\ UNCHANGED <<script, args, fs, fs0, hashSeed, raw_data, processed_data,
                   cursor, stats, fn_in, fn_out>>

\* Lines 197-204: the hop section (one row per hop count, so none divides by
\* zero) and the bridge-entity section, which divides by total_samples.
E_PrintHopsAndBridges ==
    /\ script = "extractor" /\ pc = "print_hops"
    /\ IF stats.total_samples = 0
       THEN Crash("ZeroDivisionError", 203)
       ELSE /\ pc' = "examples"
            /\ UNCHANGED stdout
    /\ UNCHANGED <<script, args, fs, fs0, hashSeed, raw_data, processed_data,
                   cursor, stats, fn_in, fn_out>>

\* Lines 206-219: the first three retained records are shown.
E_ShowExamples ==
    /\ script = "extractor" /\ pc = "examples"
    /\ stdout' = [stdout EXCEPT !.shown = Min(3, Len(processed_data))]
    /\ pc' = "finish"
    /\ UNCHANGED <<script, args, fs, fs0, hashSeed, raw_data, processed_data,
                   cursor, stats, fn_in, fn_out>>

\* A slip that writes the output file in stats-only mode too.
E_Finish_ignores_stats_only ==
    /\ script = "extractor" /\ pc = "finish"
    /\ fs' = [fs EXCEPT ![args.output] = TextFile(write_lines(processed_data))]
    /\ stdout' = [stdout EXCEPT !.wrote = Len(processed_data)]
    /\ pc' = "done"
    /\ UNCHANGED <<script, args, fs0, hashSeed, raw_data, processed_data,
                   cursor, stats, fn_in, fn_out>>

\* Lines 221-235: stats-only mode returns; otherwise the output path is opened
\* with mode 'w' (created or truncated) and one line is written per record.
E_Finish ==
    /\ script = "extractor" /\ pc = "finish"
    /\ IF args.stats_only
       THEN UNCHANGED <<fs, stdout>>
       ELSE /\ fs' = [fs EXCEPT ![args.output] = TextFile(write_lines(processed_data))]
            /\ stdout' = [stdout EXCEPT !.wrote = Len(processed_data)]
    /\ pc' = "done"
    /\ UNCHANGED <<script, args, fs0, hashSeed, raw_data, processed_data,
                   cursor, stats, fn_in, fn_out>>

(***************************************************************************)
(* The loader: main of load_dataset.py                                      *)
(***************************************************************************)
InitLoader ==
    /\ script = "loader"
    /\ args \in [file : {None, "data.json"}, sample : 0..MaxShow, stats : BOOLEAN]
    /\ \E inp \in {Absent} \cup {JsonFile(v) : v \in SampleFiles} :
          fs = [NoFiles EXCEPT !["data.json"] = inp]
    /\ fn_in = FnBase /\ fn_out = NoFnOut
    /\ Fresh

\* Lines 61-75: no --file, or a file that does not exist: report and return.
L_CheckArgs ==
    /\ script = "loader" /\ pc = "start"
    /\ IF args.file = None
       THEN /\ stdout' = [stdout EXCEPT !.diagnostic = "Please provide a dataset file"]
            /\ pc' = "done"
       ELSE IF fs[args.file].kind = "absent"
       THEN /\ stdout' = [stdout EXCEPT !.diagnostic = "File not found"]
            /\ pc' = "done"
       ELSE /\ pc' = "load"
            /\ UNCHANGED stdout
    /\ UNCHANGED <<script, args, fs, fs0, hashSeed, raw_data, processed_data,
                   cursor, stats, fn_in, fn_out>>

\* Lines 77-83: load_dataset, then "Total samples: {len(data)}".
L_Load ==
    /\ script = "loader" /\ pc = "load"
    /\ raw_data' = fs[args.file].value
    /\ IF raw_data'.kind = "scalar"
       THEN Crash("TypeError", 82)
       ELSE /\ stdout' = [stdout EXCEPT !.total = JsonLen(raw_data')]
            /\ pc' = "stats"
    /\ UNCHANGED <<script, args, fs, fs0, hashSeed, processed_data, cursor,
                   stats, fn_in, fn_out>>

\* Lines 87-97: the counting loop of --stats.
RECURSIVE loader_count(_, _)
loader_count(data, st) ==
    IF data = <<>> THEN st
    ELSE LET sample == Head(data)
             q_type == Get(sample, "type", "unknown")
         IN  loader_count(Tail(data),
                 [types |-> increment(st.types, q_type),
                  has_answer |-> st.has_answer + (IF "answer" \in DOMAIN sample THEN 1 ELSE 0),
                  has_evidences |-> st.has_evidences
                                      + (IF "evidences" \in DOMAIN sample THEN 1 ELSE 0)])

\* Lines 85-104: with --stats, the type distribution and the two fractions,
\* which divide by len(data).  Iterating a dict yields its keys, and a key (a
\* str) has no .get.
L_Stats ==
    /\ script = "loader" /\ pc = "stats"
    /\ IF ~args.stats
       THEN /\ pc' = "show"
            /\ UNCHANGED <<stats, stdout>>
       ELSE IF raw_data.kind = "dict"
       THEN /\ Crash("AttributeError", 92)
            /\ UNCHANGED stats
       ELSE LET st == loader_count(raw_data.items,
                                   [types |-> <<>>, has_answer |-> 0, has_evidences |-> 0])
                rows == type_rows(st.types, Len(raw_data.items))
            IN  /\ stats' = st
                /\ IF Len(raw_data.items) = 0
                   THEN /\ stdout' = [stdout EXCEPT
                                         !.types_header = TRUE, !.type_rows = rows,
                                         !.traceback = [exc |-> "ZeroDivisionError", line |-> 103]]
                        /\ pc' = "error"
                   ELSE /\ stdout' = [stdout EXCEPT !.types_header = TRUE, !.type_rows = rows]
                        /\ pc' = "show"
    /\ UNCHANGED <<script, args, fs, fs0, hashSeed, raw_data, processed_data,
                   cursor, fn_in, fn_out>>

\* Lines 106-116: the first min(--sample, len(data)) samples are printed;
\* data[0] of a dict is a KeyError.
L_Show ==
    /\ script = "loader" /\ pc = "show"
    /\ LET num_samples == Min(args.sample, JsonLen(raw_data))
       IN  IF num_samples > 0 /\ raw_data.kind = "dict"
           THEN Crash("KeyError", 111)
           ELSE /\ stdout' = [stdout EXCEPT !.shown = num_samples]
                /\ pc' = "done"
    /\ UNCHANGED <<script, args, fs, fs0, hashSeed, raw_data, processed_data,
                   cursor, stats, fn_in, fn_out>>

(***************************************************************************)
(* The explorer: main of explore_paragraphs.py                              *)
(***************************************************************************)
InitExplorer ==
    /\ script = "explorer"
    /\ args \in [dir : {"para_with_hyperlink"}, sample : 0..MaxShow]
    /\ \E d \in {Absent} \cup {Directory(f) : f \in SeqsUpTo(ParagraphFiles, MaxFiles)} :
          fs = [NoFiles EXCEPT !["para_with_hyperlink"] = d]
    /\ fn_in = FnBase /\ fn_out = NoFnOut
    /\ Fresh

\* Lines 60-73: a missing directory, or one without *.json files: report and return.
X_CheckDir ==
    /\ script = "explorer" /\ pc = "start"
    /\ IF fs[args.dir].kind = "absent"
       THEN /\ stdout' = [stdout EXCEPT !.diagnostic = "Directory not found"]
            /\ pc' = "done"
       ELSE IF fs[args.dir].json_files = <<>>
       THEN /\ stdout' = [stdout EXCEPT !.diagnostic = "No JSON files found"]
            /\ pc' = "done"
       ELSE /\ pc' = "load"
            /\ UNCHANGED stdout
    /\ UNCHANGED <<script, args, fs, fs0, hashSeed, raw_data, processed_data,
                   cursor, stats, fn_in, fn_out>>

\* Lines 85-93: a dict is one paragraph, a list is the paragraphs.
paragraphs_of(data) == IF data.kind = "dict" THEN <<data.obj>> ELSE data.items

\* Lines 79-95: the first file is loaded; anything but a dict or a list is
\* reported as an unknown format; "Total paragraphs in this file".
X_Load ==
    /\ script = "explorer" /\ pc = "load"
    /\ raw_data' = fs[args.dir].json_files[1]
    /\ IF raw_data'.kind \notin {"dict", "list"}
       THEN /\ stdout' = [stdout EXCEPT !.diagnostic = "Unknown data format"]
            /\ pc' = "done"
       ELSE /\ stdout' = [stdout EXCEPT !.total = Len(paragraphs_of(raw_data'))]
            /\ pc' = "show"
    /\ UNCHANGED <<script, args, fs, fs0, hashSeed, processed_data, cursor,
                   stats, fn_in, fn_out>>

\* Lines 97-105: the first min(--sample, len(paragraphs)) paragraphs are printed.
X_Show ==
    /\ script = "explorer" /\ pc = "show"
    /\ stdout' = [stdout EXCEPT !.shown = Min(args.sample, Len(paragraphs_of(raw_data)))]
    /\ pc' = "done"
    /\ UNCHANGED <<script, args, fs, fs0, hashSeed, raw_data, processed_data,
                   cursor, stats, fn_in, fn_out>>

(***************************************************************************)
(* The runs of the three scripts.                                           *)
(***************************************************************************)
Init == InitExtractor \/ InitLoader \/ InitExplorer

Next ==
    \/ E_CheckInput \/ E_Load \/ E_ProcessSample \/ E_Analyze \/ E_PrintTypes
    \/ E_PrintHopsAndBridges \/ E_ShowExamples \/ E_Finish
    \/ L_CheckArgs \/ L_Load \/ L_Stats \/ L_Show
    \/ X_CheckDir \/ X_Load \/ X_Show

Spec == Init /\ [][Next]_vars

(***************************************************************************)
(* The function harness: extract_bridge_entities is called twice on one     *)
(* sample in one process, then process_sample (which calls it and           *)
(* extract_reasoning_chain) once.                                           *)
(***************************************************************************)
InitFn ==
    /\ script = "fn"
    /\ args = [include_context |-> FALSE]
    /\ fs = NoFiles
    /\ fn_in \in FnSamples
    /\ fn_out = NoFnOut
    /\ Fresh

F_Extract ==
    /\ script = "fn" /\ pc = "start"
    /\ fn_out' = [fn_out EXCEPT !.bridges1 = extract_bridge_entities(fn_in, hashSeed)]
    /\ pc' = "extracted"
    /\ UNCHANGED <<script, args, fs, fs0, hashSeed, raw_data, processed_data,
                   cursor, stats, stdout, fn_in>>

F_ExtractAgain ==
    /\ script = "fn" /\ pc = "extracted"
    /\ fn_out' = [fn_out EXCEPT !.bridges2 = extract_bridge_entities(fn_in, hashSeed)]
    /\ pc' = "extracted_twice"
    /\ UNCHANGED <<script, args, fs, fs0, hashSeed, raw_data, processed_data,
                   cursor, stats, stdout, fn_in>>

F_Process ==
    /\ script = "fn" /\ pc = "extracted_twice"
    /\ fn_out' = [fn_out EXCEPT !.processed = process_sample(fn_in, FALSE, hashSeed)]
    /\ pc' = "done"
    /\ UNCHANGED <<script, args, fs, fs0, hashSeed, raw_data, processed_data,
                   cursor, stats, stdout, fn_in>>

NextFn == F_Extract \/ F_ExtractAgain \/ F_Process

SpecFn == InitFn /\ [][NextFn]_vars

(***************************************************************************)
(* Properties of extract_bridge_entities and extract_reasoning_chain,       *)
(* checked under SpecFn.                                                    *)
(***************************************************************************)
FnAnswer == Get(fn_in, "answer", None)

\* C1: the list extract_bridge_entities returns holds no entity twice and
\* never holds a string equal to the sample's answer, whether the call is made
\* directly or by process_sample.
C1_NoRepeatNoAnswer ==
    script = "fn" =>
        /\ pc # "start" =>
              /\ NoDuplicates(fn_out.bridges1)
              /\ \A k \in DOMAIN fn_out.bridges1 : fn_out.bridges1[k] # FnAnswer
        /\ pc = "done" =>
              /\ NoDuplicates(fn_out.processed.bridge_entities)
              /\ \A k \in DOMAIN fn_out.processed.bridge_entities :
                    fn_out.processed.bridge_entities[k] # FnAnswer

\* C1's case: a sample whose candidate entities repeat and include the answer,
\* and for which something is returned.
C1_Witness ==
    /\ script = "fn" /\ pc = "extracted"
    /\ "answer" \in DOMAIN fn_in
    /\ FnAnswer \in Range(collect_entities(fn_in, hashSeed))
    /\ ~NoDuplicates(collect_entities(fn_in, hashSeed))
    /\ Len(fn_out.bridges1) >= 2

\* The order C2 states: the titles in supporting-fact order, then the subject
\* and object of each triple in triple order, each entity at its first
\* occurrence, the answer left out.  (Read charitably: an evidence with fewer
\* than three elements has no subject and object, and an empty string is no
\* entity.)
RECURSIVE FirstOccurrences(_, _, _)
FirstOccurrences(s, seen, answer) ==
    IF s = <<>> THEN <<>>
    ELSE IF Head(s) \in seen \/ Head(s) = answer \/ Head(s) = ""
    THEN FirstOccurrences(Tail(s), seen, answer)
    ELSE <<Head(s)>> \o FirstOccurrences(Tail(s), seen \cup {Head(s)}, answer)

RECURSIVE SubjectsAndObjects(_)
SubjectsAndObjects(evs) ==
    IF evs = <<>> THEN <<>>
    ELSE (IF Len(Head(evs)) >= 3 THEN <<Head(evs)[1], Head(evs)[3]>> ELSE <<>>)
         \o SubjectsAndObjects(Tail(evs))

StatedOrder(sample) ==
    LET facts == Get(sample, "supporting_facts", <<>>)
    IN  FirstOccurrences([k \in DOMAIN facts |-> facts[k][1]]
                             \o SubjectsAndObjects(Get(sample, "evidences", <<>>)),
                         {}, Get(sample, "answer", None))

\* C2: two calls of extract_bridge_entities on the same sample return the same
\* list, and that list is in the stated order: supporting-fact titles in
\* supporting-fact order, then subjects and objects in triple order, first
\* occurrences only, without the answer.
C2_SameListInStatedOrder ==
    (script = "fn" /\ pc \in {"extracted_twice", "done"}) =>
        /\ fn_out.bridges1 = fn_out.bridges2
        /\ fn_out.bridges1 = StatedOrder(fn_in)

\* C3 as stated: the reasoning chain has as many entries as the evidences list
\* (num_hops), numbered 1, 2, ..., n in list order, entry k carrying the
\* subject, relation and object of evidence k.
C3_ChainAsLongAsEvidences ==
    (script = "fn" /\ pc = "done") =>
        LET chain == fn_out.processed.reasoning_chain
            evs == fn_in["evidences"]
        IN  /\ Len(chain) = Len(evs)
            /\ Len(chain) = fn_out.processed.num_hops
            /\ \A k \in DOMAIN chain :
                  /\ chain[k].hop = k
                  /\ chain[k].subject = evs[k][1]
                  /\ chain[k].relation = evs[k][2]
                  /\ chain[k].object = evs[k][3]

\* C3, amended: num_hops is the length of the evidences list; the chain has one
\* entry per evidence of at least three elements, in list order, each carrying
\* that evidence's 1-based position as its hop number and its first three
\* elements as subject, relation and object.  When every evidence has at least
\* three elements the chain is as long as the evidences list and its hop
\* numbers are 1, 2, ..., n.
C3_ChainOfTheTriples ==
    (script = "fn" /\ pc = "done") =>
        LET chain == fn_out.processed.reasoning_chain
            evs == fn_in["evidences"]
            triples == {j \in DOMAIN evs : Len(evs[j]) >= 3}
        IN  /\ fn_out.processed.num_hops = Len(evs)
            /\ Len(chain) = Cardinality(triples)
            /\ \A k \in DOMAIN chain :
                  /\ chain[k].hop \in triples
                  /\ chain[k].subject = evs[chain[k].hop][1]
                  /\ chain[k].relation = evs[chain[k].hop][2]
                  /\ chain[k].object = evs[chain[k].hop][3]
            /\ \A k, m \in DOMAIN chain : k < m => chain[k].hop < chain[m].hop
            /\ triples = DOMAIN evs =>
                  /\ Len(chain) = Len(evs)
                  /\ \A k \in DOMAIN chain : chain[k].hop = k

\* C3's case: a sample of two or more evidence triples, all well formed, whose
\* chain has been built.
C3_Witness ==
    /\ script = "fn" /\ pc = "done"
    /\ Len(fn_in["evidences"]) >= 2
    /\ \A j \in DOMAIN fn_in["evidences"] : Len(fn_in["evidences"][j]) >= 3
    /\ Len(fn_out.processed.reasoning_chain) = Len(fn_in["evidences"])

(***************************************************************************)
(* Properties of the runs, checked under Spec.                              *)
(***************************************************************************)
\* Whether a derived record satisfies the two filters of the command line.
SatisfiesFilters(rec) ==
    /\ args.filter_type # None => rec.question_type = args.filter_type
    /\ rec.num_hops >= args.min_hops

\* C4: in the extractor every record of processed_data satisfies both filters
\* (question_type equal to --filter-type when it is given, num_hops at least
\* --min-hops), at every point of the run; the statistics count records that
\* satisfy them, as many as were retained, and every line written holds one.
C4_RetainedSatisfyFilters ==
    script = "extractor" =>
        /\ \A k \in DOMAIN processed_data : SatisfiesFilters(processed_data[k])
        /\ \A k \in DOMAIN stats.by_type :
              args.filter_type # None => stats.by_type[k].key = args.filter_type
        /\ \A k \in DOMAIN stats.by_num_hops : stats.by_num_hops[k].key >= args.min_hops
        /\ pc \notin {"start", "load", "process"} =>
              /\ stats.total_samples = Len(processed_data)
              /\ SumCounts(stats.by_type) = Len(processed_data)
        /\ stdout.wrote >= 0 =>
              \A k \in DOMAIN fs[args.output].text :
                  fs[args.output].text[k].tok = "object"
                      => SatisfiesFilters(fs[args.output].text[k].value)

\* C4's case: a run with both filters set that dropped a sample, retained
\* another, and wrote its output.
C4_Witness ==
    /\ script = "extractor" /\ pc = "done"
    /\ args.filter_type # None /\ args.min_hops > 0
    /\ stdout.wrote > 0
    /\ Len(processed_data) < Len(raw_data.items)

\* The records of the samples of the input list that pass the filters, in the
\* order of the input list.
PassingRecords ==
    LET items == fs0[args.input].value.items
        recs == [k \in DOMAIN items |->
                    process_sample(items[k], args.include_context, hashSeed)]
    IN  SelectSeq(recs, SatisfiesFilters)

\* C5: when the extractor has run on an existing input file (a list of
\* samples) and not in stats-only mode, the output file holds exactly one line
\* per sample that passes the filters, in the order of the input list, and
\* nothing else.
C5_OutputHoldsThePassingSamples ==
    (/\ script = "extractor" /\ pc \in {"done", "error"}
     /\ fs0[args.input].kind = "json" /\ fs0[args.input].value.kind = "list"
     /\ ~args.stats_only)
        => /\ fs[args.output].kind = "text"
           /\ Lines(fs[args.output].text)
                 = [k \in DOMAIN PassingRecords |-> <<dumps(PassingRecords[k])>>]

\* C6: in a run of the extractor whose input file does not exist, or in
\* stats-only mode, no file is ever written (the output file is as it was
\* before the run); and on a missing input nothing is loaded or processed.
C6_OutputUntouched ==
    (script = "extractor" /\ (fs0[args.input].kind = "absent" \/ args.stats_only)) =>
        /\ fs = fs0
        /\ fs0[args.input].kind = "absent" =>
              /\ raw_data = Unloaded
              /\ processed_data = <<>> /\ cursor = 0
              /\ pc \in {"start", "done"}

\* C6's case: a stats-only run that retained records, ran to its end, and had
\* an output file from before.
C6_Witness ==
    /\ script = "extractor" /\ pc = "done"
    /\ args.stats_only /\ args.output = "out.jsonl"
    /\ Len(processed_data) > 0
    /\ fs["out.jsonl"] = TextFile(OldText)

\* C7: whatever the flags, the input file's content during and after a run of
\* the extractor is its content before the run.
C7_InputFileNeverMutated ==
    script = "extractor" => fs[args.input] = fs0[args.input]

\* The total the percentages of a question-type section are taken of.
StatsTotal == IF script = "extractor" THEN stats.total_samples ELSE JsonLen(raw_data)

\* C8: once the question-type section of the extractor or of the loader has
\* been printed for a non-empty set of samples, the counts of its rows sum to
\* the total sample count and its percentages sum to 100% (within the rounding
\* of one decimal: half a tenth per row).
C8_TypePercentagesSumTo100 ==
    (script \in {"extractor", "loader"} /\ stdout.types_header /\ StatsTotal > 0) =>
        /\ SumCounts(stdout.type_rows) = StatsTotal
        /\ 2 * (SumPct(stdout.type_rows) - 1000) <= Len(stdout.type_rows)
        /\ 2 * (1000 - SumPct(stdout.type_rows)) <= Len(stdout.type_rows)

\* The number of top-level elements of a parsed file: the records of a list,
\* or the one record of a single record object.
TopLevelElements(v) == IF v.kind = "list" THEN Len(v.items) ELSE 1

\* C9 as stated: the total a script reports is the number of top-level
\* elements parsed, for a list of records and for a single record object.
C9_TotalIsTheElementCount ==
    stdout.total # -1 => stdout.total = TopLevelElements(raw_data)

\* C9, amended: for a list the three scripts report its length; for a single
\* record object the explorer reports 1, and the loader and the extractor
\* report the number of keys of the object.
C9_TotalOfListOrObject ==
    /\ stdout.total # -1 =>
          IF raw_data.kind = "list" THEN stdout.total = Len(raw_data.items)
          ELSE /\ raw_data.kind = "dict"
               /\ script = "explorer" => stdout.total = 1
               /\ script \in {"loader", "extractor"}
                     => stdout.total = Cardinality(DOMAIN raw_data.obj)
    /\ (pc \in {"process", "stats", "show"} /\ script # "fn") => stdout.total # -1

\* C9's case: the extractor has reported the total of a single record object.
C9_Witness ==
    /\ script = "extractor" /\ pc = "process"
    /\ raw_data.kind = "dict"
    /\ stdout.total > 1

\* C10: a run of the extractor, or of the loader with --stats, on an existing
\* file holding a list of samples never stops in an error state.
C10_NoErrorOnAList ==
    (/\ script = "extractor" \/ (script = "loader" /\ args.stats)
     /\ raw_data.kind = "list")
        => pc # "error"

====
